---- MODULE Spec2Model ----
(***************************************************************************)
(* Model of parcount.cpp: main() runs five trials in which t threads each  *)
(* increment a counter i times, released together by the atomic flag       *)
(* `start`.  The runner (main) and every std::thread are processes; a      *)
(* thread's state is the element of threadVector that owns it.             *)
(***************************************************************************)
EXTENDS Integers, Sequences, FiniteSets, TLC

(* ------------------------------ bounds --------------------------------- *)
\* largest thread count -t
MaxW == 2
\* largest increment count -i
MaxI == 3
\* largest measured interval t2 - t1, in clock ticks
MaxElapsed == 1

\* largest number of command-line tokens after the program name
MaxArgs == 3
\* the first block's outcomes are enumerated up to this many
MaxRaceFinals == 40000

(* --------------------------- program constants ------------------------- *)
\* width of int
IntBits == 32
\* the factor of sharedCounter*1000
PerMilli == 1000
\* the number of trials in main
NumTrials == 5
\* int t = 4; int i = 10000
DefaultT == 4
DefaultI == 10000

VARIABLES
    argv,                 \* main: argv[1..argc-1], each token a sequence of characters
    argcIterator,         \* main: the parse loop's int argcIterator
    t,                    \* main: int t, the number of threads
    i,                    \* main: int i, the increments per thread
    sharedCounter,        \* main: int sharedCounter
    sharedCounterAtomic,  \* main: std::atomic<int> sharedCounterAtomic
    threadVector,         \* main: std::vector<std::thread>, one record per thread
    sharedCounter_mtx,    \* global std::mutex: NoOwner or the index of the holder
    start,                \* global std::atomic<bool>
    localCounterVector,   \* global std::vector<int>
    trial,                \* which of the five blocks of main is running
    pc,                   \* the runner's statement inside that block
    iterator,             \* the spawn loop's int iterator
    joined,               \* how many elements the join loop has passed
    seconds,              \* tDelta.count(), in clock ticks
    out                   \* what was written to std::cout

vars == <<argv, argcIterator, t, i, sharedCounter, sharedCounterAtomic, threadVector,
          sharedCounter_mtx, start, localCounterVector, trial, pc, iterator,
          joined, seconds, out>>

(* ------------------------------ helpers -------------------------------- *)
\* the largest and the smallest int
IntMax == (2^(IntBits - 2) - 1) * 2 + 1
IntMin == -IntMax - 1

\* half an int: 2^16
Half == 2^(IntBits \div 2)

\* a + b in int arithmetic; a signed overflow wraps (two's complement), which
\* is what the add instruction of the build leaves in the register
Add32(a, b) ==
    IF b >= 0 /\ a > IntMax - b THEN (a - IntMax - 1) + (b - IntMax - 1)
    ELSE IF b < 0 /\ a < IntMin - b THEN (a + IntMax + 1) + (b + IntMax + 1)
    ELSE a + b

\* a * k in int arithmetic for 0 <= k < 2^15, computed on the two halves of a;
\* a signed overflow wraps, as the multiply instruction of the build does
Mul32(a, k) ==
    LET lo  == a % Half
        hi  == (a \div Half) % Half
        plo == lo * k
        nlo == plo % Half
        nhi == (hi * k + (plo \div Half)) % Half
    IN  IF nhi >= Half \div 2 THEN (nhi - Half) * Half + nlo ELSE nhi * Half + nlo

\* std::mutex not held by anyone
NoOwner == 0

\* a thread function that takes no index argument
NoArg == -1

\* the function each block of main hands to std::thread
ThreadFunction(k) ==
    CASE k = 1 -> "incrementiTimesRaceCondition"
      [] k = 2 -> "incrementiTimesMutexLock"
      [] k = 3 -> "incrementiTimesLockGuard"
      [] k = 4 -> "incrementiTimesAtomic"
      [] OTHER -> "incrementiTimesLocalCounter"

\* the label each block of main prints in front of its line
PrintedNameSwapped(k) ==
    CASE k = 1 -> "incrementiTimesRaceCondition"
      [] k = 2 -> "incrementiTimesLockGuard"
      [] k = 3 -> "incrementiTimesMutexLock"
      [] k = 4 -> "incrementiTimesAtomic"
      [] OTHER -> "incrementiTimesLocalCounter"
PrintedName(k) ==
    CASE k = 1 -> "incrementiTimesRaceCondition"
      [] k = 2 -> "incrementiTimesMutexLock"
      [] k = 3 -> "incrementiTimesLockGuard"
      [] k = 4 -> "incrementiTimesAtomic"
      [] OTHER -> "incrementiTimesLocalCounter"

Header == "Function Name\tFinal Couter Value\tThreads\tIncrements/Millisecond\tSeconds\n"

\* the sum of a sequence of ints, as the reduction loop accumulates it
RECURSIVE SumSeq(_)
SumSeq(s) == IF s = <<>> THEN 0 ELSE Add32(SumSeq(SubSeq(s, 1, Len(s) - 1)), s[Len(s)])

\* while (!start.load()); falls through
GateOpenNever == TRUE
GateOpen == start

\* incrementCounter < i
LoopTestInclusive(incrementCounter) == incrementCounter <= i
LoopTest(incrementCounter) == incrementCounter < i

\* the value ++x stores, from the value it loaded and the value x holds now
PreIncrementAtomic(loaded, current) == Add32(current, 1)
PreIncrement(loaded, current) == Add32(loaded, 1)

\* the state of the mutex after unlock()
UnlockMissing(holder) == holder
Unlock(holder) == NoOwner

\* the index argument main passes to incrementiTimesLocalCounter
IndexArgumentZero(it) == 0
IndexArgument(it) == it

\* start = false at the end of a block
GateResetMissing == start
GateReset == FALSE

\* std::thread::join returns: the thread's function has returned
JoinReturnsEarly(th) == TRUE
JoinReturns(th) == th.pc = "done"

\* sharedCounter*1000 / seconds: an int product divided by a double
Throughput(counter, secs) == [num |-> Mul32(counter, PerMilli), den |-> secs]

Workers == 1..Len(threadVector)

\* lock() gets the mutex: nobody holds it
LockAlwaysAvailable == TRUE
LockAvailable == sharedCounter_mtx = NoOwner

\* the join loop has an element left:  for(auto& t : threadVector)
JoinLoopSkipsLast == joined < Len(threadVector) - 1
JoinLoopTest == joined < Len(threadVector)

\* threadVector.clear()
ClearThreadsMissing(v) == v
ClearThreads(v) == <<>>

\* a freshly constructed std::thread running fn; `loaded` is the temporary
\* of ++x, which lives from the load to the store and is 0 outside of them
NewThread(fn, arg) ==
    [fn |-> fn, pc |-> "wait", incrementCounter |-> 0, loaded |-> 0, iterator |-> arg]


(* --------------------------- the command line -------------------------- *)
\* the characters '0' .. '9'
DigitChars == <<"0", "1", "2", "3", "4", "5", "6", "7", "8", "9">>

IsDigit(c) == \E d \in 1..Len(DigitChars) : DigitChars[d] = c

DigitValue(c) == (CHOOSE d \in 1..Len(DigitChars) : DigitChars[d] = c) - 1

\* the characters isspace accepts: blank, \t, \n, \v, \f, \r
SpaceChars == {" ", "\t", "\n", "", "\f", "\r"}

\* the position of the first character of tok from k on that is no white space
RECURSIVE SkipSpace(_, _)
SkipSpace(tok, k) ==
    IF k <= Len(tok) /\ tok[k] \in SpaceChars THEN SkipSpace(tok, k + 1) ELSE k

\* the position after the run of decimal digits that starts at k
RECURSIVE DigitsEnd(_, _)
DigitsEnd(tok, k) ==
    IF k > Len(tok) \/ ~IsDigit(tok[k]) THEN k ELSE DigitsEnd(tok, k + 1)

\* a digit string without its leading zeros
RECURSIVE StripZeros(_)
StripZeros(ds) == IF ds # <<>> /\ ds[1] = "0" THEN StripZeros(Tail(ds)) ELSE ds

\* the digits of LONG_MAX, 2^63 - 1: strtol works in long, 64 bits wide
LongMaxDigits ==
    <<"9", "2", "2", "3", "3", "7", "2", "0", "3", "6",
      "8", "5", "4", "7", "7", "5", "8", "0", "7">>

\* the number a digit string (no leading zeros) denotes is above LONG_MAX
ExceedsLong(ds) ==
    \/ Len(ds) > Len(LongMaxDigits)
    \/ /\ Len(ds) = Len(LongMaxDigits)
       /\ \E p \in 1..Len(ds) :
              /\ DigitValue(ds[p]) > DigitValue(LongMaxDigits[p])
              /\ \A q \in 1..(p - 1) : ds[q] = LongMaxDigits[q]

\* -a in int arithmetic
Neg32(a) == IF a = IntMin THEN IntMin ELSE -a

\* the decimal digits of tok from position k on, accumulated into acc and
\* stopping at the first other character; the int holds the low 32 bits of
\* the number read so far
RECURSIVE AtoiFrom(_, _, _)
AtoiFrom(tok, k, acc) ==
    IF k > Len(tok) \/ ~IsDigit(tok[k]) THEN acc
    ELSE AtoiFrom(tok, k + 1, Add32(Mul32(acc, 10), DigitValue(tok[k])))

\* atoi(tok), which is (int) strtol(tok, NULL, 10): white space, an optional
\* sign, then the digits; 0 when there are none. A number that fits no int is
\* undefined for atoi; the build's library returns the low 32 bits of the
\* long strtol returns, and strtol returns LONG_MAX (low bits: -1) above
\* LONG_MAX and LONG_MIN (low bits: 0) below LONG_MIN
Atoi(tok) ==
    LET b      == SkipSpace(tok, 1)
        signed == b <= Len(tok) /\ tok[b] \in {"-", "+"}
        neg    == signed /\ tok[b] = "-"
        k      == IF signed THEN b + 1 ELSE b
        run    == StripZeros(SubSeq(tok, k, DigitsEnd(tok, k) - 1))
        v      == AtoiFrom(tok, k, 0)
    IN  IF ExceedsLong(run) THEN (IF neg THEN 0 ELSE -1)
        ELSE IF neg THEN Neg32(v) ELSE v

\* the decimal digits of n >= 0, as typed on a command line
RECURSIVE Digits(_)
Digits(n) ==
    IF n < 10 THEN <<DigitChars[n + 1]>>
    ELSE Append(Digits(n \div 10), DigitChars[(n % 10) + 1])

\* the tokens strcmp compares with
FlagT == <<"-", "t">>
FlagI == <<"-", "i">>

\* the command line  -t <a> -i <b>
CommandLine(a, b) == <<FlagT, Digits(a), FlagI, Digits(b)>>

\* int lastIndexToCheck = argc-1, where argc = Len(argv) + 1
lastIndexToCheck == Len(argv)

\* argcIterator < lastIndexToCheck
ParseLoopTest == argcIterator < lastIndexToCheck

(* ------------------------------- Init ---------------------------------- *)
\* main after its parse loop, run with  -t <t> -i <i>
Init ==
    /\ t \in 0..MaxW
    /\ i \in 0..MaxI
    /\ argv = CommandLine(t, i)
    /\ argcIterator = Len(argv) + 1
    /\ sharedCounter = 0
    /\ sharedCounterAtomic = 0
    /\ threadVector = <<>>
    /\ sharedCounter_mtx = NoOwner
    /\ start = FALSE
    /\ localCounterVector = <<>>
    /\ trial = 1
    /\ pc = "header"
    /\ iterator = 0
    /\ joined = 0
    /\ seconds = 0
    /\ out = <<>>

(* ------------------------- the thread functions ------------------------ *)
RunnerVars == <<argv, argcIterator, t, i, trial, pc, iterator, joined, seconds, out>>

\* thread w runs fn and stands at statement p
At(w, fn, p) == threadVector[w].fn = fn /\ threadVector[w].pc = p

\* void incrementiTimesRaceCondition(int& sharedCounter, int& i)
incrementiTimesRaceCondition(w) ==
    /\ \/ /\ At(w, "incrementiTimesRaceCondition", "wait")
          /\ GateOpen
          /\ threadVector' = [threadVector EXCEPT ![w].pc = "loop"]
          /\ UNCHANGED sharedCounter
       \/ /\ At(w, "incrementiTimesRaceCondition", "loop")
          /\ LoopTest(threadVector[w].incrementCounter)
          /\ threadVector' = [threadVector EXCEPT ![w].pc = "store",
                                                  ![w].loaded = sharedCounter]
          /\ UNCHANGED sharedCounter
       \/ /\ At(w, "incrementiTimesRaceCondition", "store")
          /\ sharedCounter' = PreIncrement(threadVector[w].loaded, sharedCounter)
          /\ threadVector' = [threadVector EXCEPT ![w].pc = "loop",
                                 ![w].loaded = 0,
                                 ![w].incrementCounter = @ + 1]
       \/ /\ At(w, "incrementiTimesRaceCondition", "loop")
          /\ ~LoopTest(threadVector[w].incrementCounter)
          /\ threadVector' = [threadVector EXCEPT ![w].pc = "done"]
          /\ UNCHANGED sharedCounter
    /\ UNCHANGED <<sharedCounterAtomic, sharedCounter_mtx, start, localCounterVector>>
    /\ UNCHANGED RunnerVars

\* void incrementiTimesMutexLock(int& sharedCounter, int& i)
incrementiTimesMutexLock(w) ==
    /\ \/ /\ At(w, "incrementiTimesMutexLock", "wait")
          /\ GateOpen
          /\ threadVector' = [threadVector EXCEPT ![w].pc = "lock"]
          /\ UNCHANGED <<sharedCounter, sharedCounter_mtx>>
       \/ /\ At(w, "incrementiTimesMutexLock", "lock")
          /\ LockAvailable
          /\ sharedCounter_mtx' = w
          /\ threadVector' = [threadVector EXCEPT ![w].pc = "loop"]
          /\ UNCHANGED sharedCounter
       \/ /\ At(w, "incrementiTimesMutexLock", "loop")
          /\ LoopTest(threadVector[w].incrementCounter)
          /\ threadVector' = [threadVector EXCEPT ![w].pc = "store",
                                                  ![w].loaded = sharedCounter]
          /\ UNCHANGED <<sharedCounter, sharedCounter_mtx>>
       \/ /\ At(w, "incrementiTimesMutexLock", "store")
          /\ sharedCounter' = PreIncrement(threadVector[w].loaded, sharedCounter)
          /\ threadVector' = [threadVector EXCEPT ![w].pc = "loop",
                                 ![w].loaded = 0,
                                 ![w].incrementCounter = @ + 1]
          /\ UNCHANGED sharedCounter_mtx
       \/ /\ At(w, "incrementiTimesMutexLock", "loop")
          /\ ~LoopTest(threadVector[w].incrementCounter)
          /\ threadVector' = [threadVector EXCEPT ![w].pc = "unlock"]
          /\ UNCHANGED <<sharedCounter, sharedCounter_mtx>>
       \/ /\ At(w, "incrementiTimesMutexLock", "unlock")
          /\ sharedCounter_mtx' = Unlock(sharedCounter_mtx)
          /\ threadVector' = [threadVector EXCEPT ![w].pc = "done"]
          /\ UNCHANGED sharedCounter
    /\ UNCHANGED <<sharedCounterAtomic, start, localCounterVector>>
    /\ UNCHANGED RunnerVars

\* void incrementiTimesLockGuard(int& sharedCounter, int& i): the guard's
\* constructor locks, its destructor unlocks at the closing brace
incrementiTimesLockGuard(w) ==
    /\ \/ /\ At(w, "incrementiTimesLockGuard", "wait")
          /\ GateOpen
          /\ threadVector' = [threadVector EXCEPT ![w].pc = "lock"]
          /\ UNCHANGED <<sharedCounter, sharedCounter_mtx>>
       \/ /\ At(w, "incrementiTimesLockGuard", "lock")
          /\ LockAvailable
          /\ sharedCounter_mtx' = w
          /\ threadVector' = [threadVector EXCEPT ![w].pc = "loop"]
          /\ UNCHANGED sharedCounter
       \/ /\ At(w, "incrementiTimesLockGuard", "loop")
          /\ LoopTest(threadVector[w].incrementCounter)
          /\ threadVector' = [threadVector EXCEPT ![w].pc = "store",
                                                  ![w].loaded = sharedCounter]
          /\ UNCHANGED <<sharedCounter, sharedCounter_mtx>>
       \/ /\ At(w, "incrementiTimesLockGuard", "store")
          /\ sharedCounter' = PreIncrement(threadVector[w].loaded, sharedCounter)
          /\ threadVector' = [threadVector EXCEPT ![w].pc = "loop",
                                 ![w].loaded = 0,
                                 ![w].incrementCounter = @ + 1]
          /\ UNCHANGED sharedCounter_mtx
       \/ /\ At(w, "incrementiTimesLockGuard", "loop")
          /\ ~LoopTest(threadVector[w].incrementCounter)
          /\ threadVector' = [threadVector EXCEPT ![w].pc = "unlock"]
          /\ UNCHANGED <<sharedCounter, sharedCounter_mtx>>
       \/ /\ At(w, "incrementiTimesLockGuard", "unlock")
          /\ sharedCounter_mtx' = Unlock(sharedCounter_mtx)
          /\ threadVector' = [threadVector EXCEPT ![w].pc = "done"]
          /\ UNCHANGED sharedCounter
    /\ UNCHANGED <<sharedCounterAtomic, start, localCounterVector>>
    /\ UNCHANGED RunnerVars

\* void incrementiTimesAtomic(std::atomic<int>& sharedCounterAtomic, int& i):
\* fetch_add is one indivisible read-modify-write
incrementiTimesAtomic(w) ==
    /\ \/ /\ At(w, "incrementiTimesAtomic", "wait")
          /\ GateOpen
          /\ threadVector' = [threadVector EXCEPT ![w].pc = "loop"]
          /\ UNCHANGED sharedCounterAtomic
       \/ /\ At(w, "incrementiTimesAtomic", "loop")
          /\ LoopTest(threadVector[w].incrementCounter)
          /\ sharedCounterAtomic' = Add32(sharedCounterAtomic, 1)
          /\ threadVector' = [threadVector EXCEPT ![w].incrementCounter = @ + 1]
       \/ /\ At(w, "incrementiTimesAtomic", "loop")
          /\ ~LoopTest(threadVector[w].incrementCounter)
          /\ threadVector' = [threadVector EXCEPT ![w].pc = "done"]
          /\ UNCHANGED sharedCounterAtomic
    /\ UNCHANGED <<sharedCounter, sharedCounter_mtx, start, localCounterVector>>
    /\ UNCHANGED RunnerVars

\* the element localCounterVector[iterator] of the code (indices from 0)
Slot(it) == it + 1

\* void incrementiTimesLocalCounter(int iterator, int& i)
incrementiTimesLocalCounter(w) ==
    /\ \/ /\ At(w, "incrementiTimesLocalCounter", "wait")
          /\ GateOpen
          /\ threadVector' = [threadVector EXCEPT ![w].pc = "loop"]
          /\ UNCHANGED localCounterVector
       \/ /\ At(w, "incrementiTimesLocalCounter", "loop")
          /\ LoopTest(threadVector[w].incrementCounter)
          /\ threadVector' = [threadVector EXCEPT ![w].pc = "store",
                 ![w].loaded = localCounterVector[Slot(threadVector[w].iterator)]]
          /\ UNCHANGED localCounterVector
       \/ /\ At(w, "incrementiTimesLocalCounter", "store")
          /\ localCounterVector' =
                 [localCounterVector EXCEPT ![Slot(threadVector[w].iterator)] =
                     PreIncrement(threadVector[w].loaded, @)]
          /\ threadVector' = [threadVector EXCEPT ![w].pc = "loop",
                                 ![w].loaded = 0,
                                 ![w].incrementCounter = @ + 1]
       \/ /\ At(w, "incrementiTimesLocalCounter", "loop")
          /\ ~LoopTest(threadVector[w].incrementCounter)
          /\ threadVector' = [threadVector EXCEPT ![w].pc = "done"]
          /\ UNCHANGED localCounterVector
    /\ UNCHANGED <<sharedCounter, sharedCounterAtomic, sharedCounter_mtx, start>>
    /\ UNCHANGED RunnerVars

\* one step of thread w, whichever function it runs
Thread(w) ==
    \/ incrementiTimesRaceCondition(w)
    \/ incrementiTimesMutexLock(w)
    \/ incrementiTimesLockGuard(w)
    \/ incrementiTimesAtomic(w)
    \/ incrementiTimesLocalCounter(w)

(* ------------------------------- main ---------------------------------- *)
SharedVars == <<sharedCounter, sharedCounterAtomic, threadVector,
                sharedCounter_mtx, start, localCounterVector>>

\* std::cout << "Function Name\t..."
PrintHeader ==
    /\ pc = "header"
    /\ out' = Append(out, Header)
    /\ pc' = "spawn"
    /\ UNCHANGED <<argv, argcIterator, t, i, trial, iterator, joined, seconds>>
    /\ UNCHANGED SharedVars

\* threadVector.push_back(std::thread(f, std::ref(counter), std::ref(i)))
Spawn ==
    /\ pc = "spawn"
    /\ trial # NumTrials
    /\ iterator < t
    /\ threadVector' = Append(threadVector, NewThread(ThreadFunction(trial), NoArg))
    /\ iterator' = iterator + 1
    /\ UNCHANGED <<argv, argcIterator, t, i, trial, pc, joined, seconds, out>>
    /\ UNCHANGED <<sharedCounter, sharedCounterAtomic, sharedCounter_mtx, start,
                   localCounterVector>>

\* localCounterVector.push_back(0)
PushSlot ==
    /\ pc = "spawn"
    /\ trial = NumTrials
    /\ iterator < t
    /\ localCounterVector' = Append(localCounterVector, 0)
    /\ pc' = "spawnLocal"
    /\ UNCHANGED <<argv, argcIterator, t, i, trial, iterator, joined, seconds, out>>
    /\ UNCHANGED <<sharedCounter, sharedCounterAtomic, threadVector,
                   sharedCounter_mtx, start>>

\* threadVector.push_back(std::thread(incrementiTimesLocalCounter, iterator, std::ref(i)))
SpawnLocal ==
    /\ pc = "spawnLocal"
    /\ threadVector' = Append(threadVector,
                              NewThread(ThreadFunction(trial), IndexArgument(iterator)))
    /\ iterator' = iterator + 1
    /\ pc' = "spawn"
    /\ UNCHANGED <<argv, argcIterator, t, i, trial, joined, seconds, out>>
    /\ UNCHANGED <<sharedCounter, sharedCounterAtomic, sharedCounter_mtx, start,
                   localCounterVector>>

\* the spawn loop ends; t1 = std::chrono::high_resolution_clock::now()
StartTimer ==
    /\ pc = "spawn"
    /\ ~(iterator < t)
    /\ pc' = "open"
    /\ UNCHANGED <<argv, argcIterator, t, i, trial, iterator, joined, seconds, out>>
    /\ UNCHANGED SharedVars

\* start = true
OpenGate ==
    /\ pc = "open"
    /\ start' = TRUE
    /\ joined' = 0
    /\ pc' = "join"
    /\ UNCHANGED <<argv, argcIterator, t, i, trial, iterator, seconds, out>>
    /\ UNCHANGED <<sharedCounter, sharedCounterAtomic, threadVector,
                   sharedCounter_mtx, localCounterVector>>

\* for(auto& t : threadVector) t.join(): blocks until that thread has returned
Join ==
    /\ pc = "join"
    /\ JoinLoopTest
    /\ JoinReturns(threadVector[joined + 1])
    /\ threadVector' = [threadVector EXCEPT ![joined + 1].pc = "joined"]
    /\ joined' = joined + 1
    /\ UNCHANGED <<argv, argcIterator, t, i, trial, pc, iterator, seconds, out>>
    /\ UNCHANGED <<sharedCounter, sharedCounterAtomic, sharedCounter_mtx, start,
                   localCounterVector>>

\* for(auto& localCounter : localCounterVector) sharedCounter += localCounter
Reduce ==
    /\ pc = "join"
    /\ trial = NumTrials
    /\ ~JoinLoopTest
    /\ sharedCounter' = Add32(sharedCounter, SumSeq(localCounterVector))
    /\ pc' = "t2"
    /\ UNCHANGED <<argv, argcIterator, t, i, trial, iterator, joined, seconds, out>>
    /\ UNCHANGED <<sharedCounterAtomic, threadVector, sharedCounter_mtx, start,
                   localCounterVector>>

\* t2 = now(); tDelta = t2-t1; seconds = tDelta.count(): the clock has
\* advanced by some d > 0 ticks since t1
StopTimer ==
    /\ \/ pc = "join" /\ trial # NumTrials /\ ~JoinLoopTest
       \/ pc = "t2"
    /\ \E d \in 1..MaxElapsed : seconds' = d
    /\ pc' = "print"
    /\ UNCHANGED <<argv, argcIterator, t, i, trial, iterator, joined, out>>
    /\ UNCHANGED SharedVars

\* the counter a block prints: sharedCounterAtomic in the fourth, sharedCounter
\* in the others
PrintedCounter(k) == IF k = 4 THEN sharedCounterAtomic ELSE sharedCounter

\* std::cout << name << counter << t << counter*1000/seconds << seconds
PrintLine ==
    /\ pc = "print"
    /\ out' = Append(out, [name       |-> PrintedName(trial),
                           final      |-> PrintedCounter(trial),
                           threads    |-> t,
                           throughput |-> Throughput(PrintedCounter(trial), seconds),
                           seconds    |-> seconds])
    /\ pc' = "resetCounter"
    /\ UNCHANGED <<argv, argcIterator, t, i, trial, iterator, joined, seconds>>
    /\ UNCHANGED SharedVars

\* sharedCounter = 0 (sharedCounterAtomic = 0 in the fourth block)
ResetCounter ==
    /\ pc = "resetCounter"
    /\ IF trial = 4
       THEN sharedCounterAtomic' = 0 /\ UNCHANGED sharedCounter
       ELSE sharedCounter' = 0 /\ UNCHANGED sharedCounterAtomic
    /\ pc' = "clear"
    /\ UNCHANGED <<argv, argcIterator, t, i, trial, iterator, joined, seconds, out>>
    /\ UNCHANGED <<threadVector, sharedCounter_mtx, start, localCounterVector>>

\* threadVector.clear(), and localCounterVector.clear() in the fifth block
Clear ==
    /\ pc = "clear"
    /\ threadVector' = ClearThreads(threadVector)
    /\ localCounterVector' = IF trial = NumTrials THEN <<>> ELSE localCounterVector
    /\ pc' = "close"
    /\ UNCHANGED <<argv, argcIterator, t, i, trial, iterator, joined, seconds, out>>
    /\ UNCHANGED <<sharedCounter, sharedCounterAtomic, sharedCounter_mtx, start>>

\* start = false; control reaches the next block's spawn loop, or the end of main
CloseGate ==
    /\ pc = "close"
    /\ start' = GateReset
    /\ IF trial < NumTrials
       THEN trial' = trial + 1 /\ pc' = "spawn" /\ iterator' = 0
       ELSE pc' = "exit" /\ UNCHANGED <<trial, iterator>>
    /\ UNCHANGED <<argv, argcIterator, t, i, joined, seconds, out>>
    /\ UNCHANGED <<sharedCounter, sharedCounterAtomic, threadVector,
                   sharedCounter_mtx, localCounterVector>>

Runner ==
    \/ PrintHeader
    \/ Spawn
    \/ PushSlot
    \/ SpawnLocal
    \/ StartTimer
    \/ OpenGate
    \/ Join
    \/ Reduce
    \/ StopTimer
    \/ PrintLine
    \/ ResetCounter
    \/ Clear
    \/ CloseGate

Next == Runner \/ \E w \in Workers : Thread(w)

Spec == Init /\ [][Next]_vars

\* the scheduler runs main and every thread that can take a step
FairSpec ==
    Spec /\ WF_vars(Runner) /\ \A w \in 1..MaxW : WF_vars(w \in Workers /\ Thread(w))

(* ============================== properties ============================= *)
\* the lines printed after the header
Records == 2..Len(out)

\* the runner's statements between start = true and start = false
AfterOpen == {"join", "t2", "print", "resetCounter", "clear"}

\* the runner's statements of a block before start = true
BeforeOpen == {"spawn", "spawnLocal", "open"}

Synchronized == {"incrementiTimesMutexLock", "incrementiTimesLockGuard",
                 "incrementiTimesAtomic", "incrementiTimesLocalCounter"}

\* C1: for W >= 1 and I >= 0 and every interleaving, the counter the runner
\* reads after the joins of the MutexLock, LockGuard, Atomic and LocalCounter
\* trials, and prints, is exactly W * I.
C1_SynchronizedFinalValue ==
    t >= 1 =>
        /\ (pc = "print" /\ trial \in 2..NumTrials) => PrintedCounter(trial) = t * i
        /\ \A k \in Records : out[k].name \in Synchronized => out[k].final = t * i

C1_Witness ==
    /\ pc = "exit" /\ t >= 2 /\ i >= 2
    /\ \A k \in 3..6 : out[k].name \in Synchronized /\ out[k].final = t * i

\* C2: no thread increments anything before the runner has opened the gate of
\* its own trial: a thread past its wait loop exists only between start = true
\* and start = false of the block that spawned it, and while a block spawns,
\* start is false and nothing has been counted.
C2_GateBeforeIncrement ==
    /\ \A w \in Workers :
          threadVector[w].pc # "wait" =>
              /\ start
              /\ pc \in AfterOpen
              /\ threadVector[w].fn = ThreadFunction(trial)
    /\ pc \in BeforeOpen =>
          /\ ~start
          /\ sharedCounter = 0
          /\ sharedCounterAtomic = 0
          /\ \A k \in 1..Len(localCounterVector) : localCounterVector[k] = 0
          /\ \A w \in Workers :
                threadVector[w].pc = "wait" /\ threadVector[w].incrementCounter = 0

C2_Witness ==
    /\ trial = NumTrials /\ pc = "join" /\ start
    /\ \E v, w \in Workers :
          threadVector[v].incrementCounter > 0 /\ threadVector[w].pc = "wait"

\* C3 as stated: the value the RaceCondition trial prints lies within [I, W*I].
C3_RaceWithinIToProduct ==
    (t >= 1 /\ trial = 1 /\ pc = "print") => (i <= sharedCounter /\ sharedCounter <= t * i)

\* the least value the racing increments can leave
RaceLowerBound == IF t = 1 THEN i ELSE IF i < 2 THEN i ELSE 2

\* C3 amended: the value the RaceCondition trial prints lies within
\* [min(I, 2), W*I] when W >= 2, and equals I when W = 1.
C3_RaceWithinBounds ==
    (t >= 1 /\ trial = 1 /\ pc = "print") =>
        (RaceLowerBound <= sharedCounter /\ sharedCounter <= t * i)

C3_Witness == trial = 1 /\ pc = "print" /\ t >= 2 /\ i >= 3 /\ sharedCounter = 2

\* C4: at every moment of the RaceCondition trial, and so in the value it
\* prints, the counter is at most W * I.
C4_RaceAtMostProduct ==
    /\ (t >= 1 /\ trial = 1) => sharedCounter <= t * i
    /\ \A k \in Records :
          (t >= 1 /\ out[k].name = "incrementiTimesRaceCondition") => out[k].final <= t * i

C4_Witness ==
    /\ trial = 1 /\ pc = "resetCounter" /\ t >= 2 /\ i >= 2
    /\ out[2].final = t * i

\* the increments the threads have completed so far
Completed == SumSeq([w \in Workers |-> threadVector[w].incrementCounter])

\* an increment of the RaceCondition trial is missing from the counter
LostUpdate == trial = 1 /\ pc \in {"join", "print"} /\ sharedCounter < Completed

\* a racing thread stores over a counter that changed since the thread loaded it
StaleStore ==
    \E w \in Workers :
        /\ At(w, "incrementiTimesRaceCondition", "store")
        /\ threadVector[w].loaded # sharedCounter
        /\ threadVector'[w].pc = "loop"

\* C5: the RaceCondition trial loses updates: a store over a counter that has
\* changed since the load leaves the counter behind the completed increments,
\* the counter never catches up, and the trial then prints less than W * I
\* (C5_Witness is such a run, with W = 2 and I = 1).
C5_LostUpdate ==
    /\ [][StaleStore => LostUpdate']_vars
    /\ [][(LostUpdate /\ pc' \in {"join", "print"}) => LostUpdate']_vars
    /\ []((LostUpdate /\ pc = "print") => sharedCounter < t * i)

C5_Witness ==
    /\ trial = 1 /\ pc = "print" /\ t = 2 /\ i = 1
    /\ sharedCounter = 1 /\ sharedCounter < t * i

\* C6: with one thread, all five trials print exactly I.
C6_SingleWorker ==
    t = 1 =>
        /\ \A k \in Records : out[k].final = i
        /\ pc = "print" => PrintedCounter(trial) = i

C6_Witness ==
    /\ pc = "exit" /\ t = 1 /\ i >= 2 /\ Len(out) = NumTrials + 1
    /\ \A k \in Records : out[k].final = i

\* the sum of the first n slots
RECURSIVE SlotTotal(_)
SlotTotal(n) == IF n = 0 THEN 0 ELSE SlotTotal(n - 1) + localCounterVector[n]

\* C7: in the LocalCounter trial thread k owns slot k and no other: the
\* indices of the threads are pairwise different, a slot holds exactly the
\* increments its own thread completed (so nobody else wrote it), a thread
\* loads only its own slot, a slot holds I once its thread has finished, and
\* the reduction leaves the sum of the W slots in sharedCounter.
C7_DisjointSlots ==
    trial = NumTrials =>
        /\ \A v, w \in Workers :
              v # w => Slot(threadVector[v].iterator) # Slot(threadVector[w].iterator)
        /\ \A w \in Workers :
              /\ Slot(threadVector[w].iterator) = w
              /\ w <= Len(localCounterVector)
              /\ localCounterVector[w] = threadVector[w].incrementCounter
              /\ threadVector[w].pc = "store" =>
                    threadVector[w].loaded = localCounterVector[w]
              /\ threadVector[w].pc \in {"done", "joined"} => localCounterVector[w] = i
        /\ pc \in {"t2", "print"} =>
              /\ Len(localCounterVector) = t
              /\ sharedCounter = SlotTotal(Len(localCounterVector))

C7_Witness ==
    /\ trial = NumTrials /\ pc = "t2" /\ t >= 2 /\ i >= 2
    /\ \A k \in 1..t : localCounterVector[k] = i
    /\ sharedCounter = t * i

\* C8: under fair scheduling every trial terminates: a state that is not the
\* end of main has a step to take (no deadlock), and main reaches its end;
\* the end is reached only through the five prints, and a print only with
\* all W threads of the trial past the gate (and the mutex), through their I
\* increments and joined, so each of these happens on the way.
C8_Termination ==
    /\ [](pc # "exit" => ENABLED Next)
    /\ [](pc = "print" =>
             /\ Len(threadVector) = t
             /\ sharedCounter_mtx = NoOwner
             /\ \A w \in Workers :
                   threadVector[w].pc = "joined" /\ threadVector[w].incrementCounter = i)
    /\ [](pc = "exit" => Len(out) = NumTrials + 1)
    /\ <>(pc = "exit")

C8_Witness ==
    /\ pc = "exit" /\ t >= 2 /\ i >= 1
    /\ threadVector = <<>> /\ sharedCounter_mtx = NoOwner /\ ~start

\* the order in which main runs the trials
TrialOrder == <<"incrementiTimesRaceCondition", "incrementiTimesMutexLock",
                "incrementiTimesLockGuard", "incrementiTimesAtomic",
                "incrementiTimesLocalCounter">>

\* C9: a run prints five records, RaceCondition, MutexLock, LockGuard, Atomic,
\* LocalCounter in this order; the record of a trial is printed when all W
\* threads of the trial, each having made I increments, are joined, and
\* before a thread of the next trial exists; W and I never change.
C9_FiveRecordsInOrder ==
    /\ [](/\ Len(out) <= NumTrials + 1
          /\ \A k \in Records :
                out[k].name = TrialOrder[k - 1] /\ out[k].threads = t
          /\ pc = "exit" => Len(out) = NumTrials + 1
          /\ pc \notin {"header", "exit"} =>
                Len(out) = (IF pc \in {"resetCounter", "clear", "close"}
                            THEN trial + 1 ELSE trial)
          /\ \A w \in Workers :
                /\ threadVector[w].fn = TrialOrder[trial]
                /\ threadVector[w].pc # "joined" => Len(out) = trial
          /\ pc = "print" =>
                /\ Len(threadVector) = t
                /\ \A w \in Workers :
                      threadVector[w].pc = "joined" /\ threadVector[w].incrementCounter = i)
    /\ [][t' = t /\ i' = i]_vars

C9_Witness ==
    /\ pc = "exit" /\ t >= 1 /\ Len(out) = NumTrials + 1
    /\ [k \in 1..NumTrials |-> out[k + 1].name] = TrialOrder

(* ------------------- the report, for large -t and -i ------------------- *)
\* thread counts and increment counts of the size the benchmark is run with
\* (4 and 10000 are the defaults); every product t * i fits an int
LargeW == {1, 2, 4}
LargeI == {1, 5, 10000, 2147483, 2147484, 100000000}

\* the values sharedCounter can hold after the joins of the first block, run
\* with w threads of n increments each: one thread leaves n; racing threads
\* leave anything from 2 (from n, when n < 2) up to w * n
RaceFinals(w, n) ==
    IF w <= 1 \/ n < 2 THEN (IF w = 0 THEN 0 ELSE n)..(w * n) ELSE 2..(w * n)

\* the line block k prints when its counter is c and the interval was d ticks
Line(k, c, d) ==
    [name |-> PrintedName(k), final |-> c, threads |-> t,
     throughput |-> Throughput(c, d), seconds |-> d]

\* main after the last join of block `trial`, every thread having made its i
\* increments: the states the thread steps above lead to, written down
\* directly because t * i steps are too many to enumerate. The first block
\* left (and printed) any of RaceFinals(t, i), the later blocks t * i. With
\* two or more threads the inputs stop where the first block has more than
\* MaxRaceFinals outcomes
InitThroughput ==
    /\ t \in LargeW
    /\ i \in LargeI
    /\ t = 1 \/ t * i <= MaxRaceFinals
    /\ argv = CommandLine(t, i)
    /\ argcIterator = Len(argv) + 1
    /\ trial \in 1..NumTrials
    /\ pc = "join"
    /\ iterator = t
    /\ joined = t
    /\ start = TRUE
    /\ sharedCounter_mtx = NoOwner
    /\ threadVector =
          [w \in 1..t |->
              [fn |-> ThreadFunction(trial), pc |-> "joined", incrementCounter |-> i,
               loaded |-> 0,
               iterator |-> (IF trial = NumTrials THEN IndexArgument(w - 1) ELSE NoArg)]]
    /\ sharedCounterAtomic = IF trial = 4 THEN t * i ELSE 0
    /\ localCounterVector = IF trial = NumTrials THEN [k \in 1..t |-> i] ELSE <<>>
    /\ \E race \in RaceFinals(t, i), d \in [1..(NumTrials - 1) -> 1..MaxElapsed] :
          /\ sharedCounter = IF trial = 1 THEN race ELSE IF trial \in 2..3 THEN t * i ELSE 0
          /\ seconds = IF trial = 1 THEN 0 ELSE d[trial - 1]
          /\ out = <<Header>> \o
                      [k \in 1..(trial - 1) |-> Line(k, IF k = 1 THEN race ELSE t * i, d[k])]

NextThroughput == Reduce \/ StopTimer \/ PrintLine

SpecThroughput == InitThroughput /\ [][NextThroughput]_vars

\* C10: for I > 0 and W >= 1 the throughput a trial prints, (final value *
\* 1000, formed in int) / elapsed seconds, is a positive number.
C10_ThroughputPositive ==
    (pc = "resetCounter" /\ t >= 1 /\ i > 0) =>
        /\ out[Len(out)].throughput.num > 0
        /\ out[Len(out)].throughput.den > 0

(* --------------------------- argument parsing -------------------------- *)
\* the tokens a command line is made of here
Tokens ==
    {FlagT, FlagI, <<"3">>, <<"1", "2">>, <<"-", "2">>, <<"x">>, <<"7", "x">>, <<" ", "5">>,
     <<"4", "2", "9", "4", "9", "6", "7", "2", "9", "7">>}

\* all sequences of at most n tokens
RECURSIVE ArgLists(_)
ArgLists(n) ==
    IF n = 0 THEN {<<>>}
    ELSE ArgLists(n - 1) \cup
         {Append(a, tok) : a \in {b \in ArgLists(n - 1) : Len(b) = n - 1}, tok \in Tokens}

\* main at the head of its parse loop
InitArgs ==
    /\ argv \in ArgLists(MaxArgs)
    /\ argcIterator = 1
    /\ t = DefaultT
    /\ i = DefaultI
    /\ sharedCounter = 0
    /\ sharedCounterAtomic = 0
    /\ threadVector = <<>>
    /\ sharedCounter_mtx = NoOwner
    /\ start = FALSE
    /\ localCounterVector = <<>>
    /\ trial = 1
    /\ pc = "parse"
    /\ iterator = 0
    /\ joined = 0
    /\ seconds = 0
    /\ out = <<>>

\* one pass of  for(argcIterator = 1; argcIterator < lastIndexToCheck; ++argcIterator)
ParseArg ==
    /\ pc = "parse"
    /\ ParseLoopTest
    /\ IF argv[argcIterator] = FlagT
       THEN /\ t' = Atoi(argv[argcIterator + 1])
            /\ argcIterator' = (argcIterator + 1) + 1
            /\ UNCHANGED i
       ELSE IF argv[argcIterator] = FlagI
       THEN /\ i' = Atoi(argv[argcIterator + 1])
            /\ argcIterator' = (argcIterator + 1) + 1
            /\ UNCHANGED t
       ELSE /\ argcIterator' = argcIterator + 1
            /\ UNCHANGED <<t, i>>
    /\ UNCHANGED <<argv, trial, pc, iterator, joined, seconds, out>>
    /\ UNCHANGED SharedVars

\* the parse loop ends
ParseDone ==
    /\ pc = "parse"
    /\ ~ParseLoopTest
    /\ pc' = "header"
    /\ UNCHANGED <<argv, argcIterator, t, i, trial, iterator, joined, seconds, out>>
    /\ UNCHANGED SharedVars

NextArgs == ParseArg \/ ParseDone

SpecArgs == InitArgs /\ [][NextArgs]_vars

\* the positions of `flag` that have a token after them
FlagPositions(flag) == {k \in 1..(Len(argv) - 1) : argv[k] = flag}

\* the value the claim gives an option: atoi of the token after the last
\* `flag` that has one, the default when there is none
ValueOfLast(flag, default) ==
    IF FlagPositions(flag) = {} THEN default
    ELSE Atoi(argv[(CHOOSE k \in FlagPositions(flag) :
                       \A j \in FlagPositions(flag) : j <= k) + 1])

\* C11: for every command line, t is the integer value of the token after
\* the last "-t" (4 when there is none), i that of the token after the last
\* "-i" (10000 when there is none); a "-t" or "-i" that is the last token is
\* ignored.
C11_LastFlagWins ==
    pc = "header" =>
        /\ t = ValueOfLast(FlagT, DefaultT)
        /\ i = ValueOfLast(FlagI, DefaultI)

(* ------------------------- the trials' life cycle ---------------------- *)
\* every thread in threadVector has been joined
AllJoined == \A w \in Workers : threadVector[w].pc = "joined"

\* the runner's next step spawns the first thread of a block
FirstSpawnNext ==
    /\ threadVector = <<>>
    /\ \/ pc = "spawn" /\ trial # NumTrials /\ iterator < t
       \/ pc = "spawnLocal"

\* C12 as stated: at the moment the first worker of any trial is spawned the
\* gate is false, both counters are 0, and the slot sequence and the handle
\* list are empty.
C12_CleanAtFirstSpawn ==
    FirstSpawnNext =>
        /\ ~start
        /\ sharedCounter = 0
        /\ sharedCounterAtomic = 0
        /\ localCounterVector = <<>>
        /\ threadVector = <<>>

\* C12 amended: when the spawn loop of any trial begins, the gate is false,
\* both counters are 0 and the slot sequence and the handle list are empty;
\* when the first worker is spawned the same holds, except that in the
\* LocalCounter trial the slot sequence already holds that worker's slot, 0.
C12_CleanAtTrialStart ==
    /\ (pc = "spawn" /\ iterator = 0) =>
          /\ ~start
          /\ sharedCounter = 0
          /\ sharedCounterAtomic = 0
          /\ localCounterVector = <<>>
          /\ threadVector = <<>>
    /\ FirstSpawnNext =>
          /\ ~start
          /\ sharedCounter = 0
          /\ sharedCounterAtomic = 0
          /\ localCounterVector = (IF trial = NumTrials THEN <<0>> ELSE <<>>)

C12_Witness ==
    /\ trial = NumTrials /\ pc = "spawnLocal" /\ iterator = 0 /\ t >= 2 /\ i >= 1
    /\ Len(out) = NumTrials /\ out[2].final < t * i
    /\ localCounterVector = <<0>> /\ threadVector = <<>> /\ ~start

\* thread w is between taking the mutex and giving it back
InCritical(w) == threadVector[w].pc \in {"loop", "store", "unlock"}

\* C13: in the MutexLock and LockGuard trials a thread makes all its I
\* increments inside one critical section: the threads between lock and unlock
\* are exactly the holder of the mutex, so at most one; a thread before it has
\* made 0 increments and a thread after it I; the counter is the sum of the
\* threads' own increments (until the runner resets it) and does not change
\* between a thread's load and store; the value under the holder's increments is a multiple of I.
C13_OneCriticalSection ==
    trial \in {2, 3} =>
        /\ \A w \in Workers : InCritical(w) <=> sharedCounter_mtx = w
        /\ \A v, w \in Workers : (InCritical(v) /\ InCritical(w)) => v = w
        /\ \A w \in Workers :
              /\ threadVector[w].pc \in {"wait", "lock"} =>
                    threadVector[w].incrementCounter = 0
              /\ threadVector[w].pc \in {"unlock", "done", "joined"} =>
                    threadVector[w].incrementCounter = i
              /\ threadVector[w].pc = "store" => threadVector[w].loaded = sharedCounter
              /\ InCritical(w) =>
                    \E n \in 0..t :
                        sharedCounter - threadVector[w].incrementCounter = n * i
        /\ pc # "clear" => sharedCounter = Completed

C13_Witness ==
    /\ trial = 3 /\ i >= 2
    /\ \E v, w \in Workers :
          /\ threadVector[v].pc \in {"done", "joined"}
          /\ threadVector[w].pc = "store" /\ threadVector[w].incrementCounter = 1
          /\ sharedCounter = i + 1

\* C14: in every trial the runner spawns all W threads, then takes t1, then
\* opens the gate, then joins all W threads, then takes t2: while it spawns,
\* t1 is not taken and the gate is closed; from t1 on there are exactly W
\* threads; between t1 and the opening every thread waits; once t2 is taken
\* every thread is joined.
C14_RunnerOrder ==
    /\ pc \in {"spawn", "spawnLocal"} =>
          ~start /\ Len(threadVector) = iterator /\ iterator <= t
    /\ pc = "open" =>
          /\ ~start
          /\ Len(threadVector) = t
          /\ \A w \in Workers : threadVector[w].pc = "wait"
    /\ pc = "join" => start /\ Len(threadVector) = t /\ joined <= t
    /\ pc \in {"t2", "print", "resetCounter", "clear"} =>
          start /\ Len(threadVector) = t /\ AllJoined

C14_Witness ==
    /\ trial = 4 /\ pc = "print" /\ t >= 2 /\ i >= 1
    /\ Len(threadVector) = t /\ AllJoined /\ sharedCounterAtomic = t * i

\* C15: in the LocalCounter trial t2 is taken after the joins and before the
\* reduction: where the runner is about to take t2, the slots have not been
\* summed into sharedCounter yet.
C15_TimerBeforeReduction ==
    (trial = NumTrials /\ pc = "t2" /\ t >= 1 /\ i >= 1) => sharedCounter = 0

\* C16: in the LocalCounter trial sharedCounter stays 0 through the parallel
\* phase; the steps that write it are the runner's reduction, taken with all
\* W threads joined, and the reset after the print; no thread step writes it.
C16_SharedCounterOnlyReduced ==
    /\ [](trial = NumTrials =>
             /\ pc \in {"spawn", "spawnLocal", "open", "join"} => sharedCounter = 0
             /\ sharedCounter # 0 =>
                   /\ pc \in {"t2", "print", "resetCounter"}
                   /\ Len(threadVector) = t
                   /\ AllJoined)
    /\ [][(trial = NumTrials /\ sharedCounter' # sharedCounter) =>
             \/ /\ pc = "join" /\ pc' = "t2"
                /\ Len(threadVector) = t /\ AllJoined
                /\ threadVector' = threadVector
             \/ pc = "resetCounter" /\ pc' = "clear"]_vars

C16_Witness ==
    /\ trial = NumTrials /\ pc = "join" /\ sharedCounter = 0
    /\ \E v, w \in Workers :
          /\ threadVector[v].pc = "store" /\ localCounterVector[v] >= 1
          /\ threadVector[w].pc = "wait"

\* C17 as stated: the slot sequence has its W slots before the first worker
\* is spawned and is never grown once a worker exists.
C17_PreSized ==
    (trial = NumTrials /\ threadVector # <<>>) => Len(localCounterVector) = t

\* C17 amended: slot k is appended just before worker k is spawned, so the
\* sequence grows while earlier workers already wait at the closed gate; each
\* worker is given only the index it owns; the sequence has its W slots
\* before the gate is opened and keeps them, never grown, from then until it
\* is cleared after the joins with all threads gone.
C17_SizedBeforeGateOpens ==
    trial = NumTrials =>
        /\ \A w \in Workers :
              /\ threadVector[w].iterator = w - 1
              /\ Slot(threadVector[w].iterator) <= Len(localCounterVector)
        /\ pc = "spawn" => Len(localCounterVector) = Len(threadVector)
        /\ pc = "spawnLocal" => Len(localCounterVector) = Len(threadVector) + 1
        /\ pc \in {"open", "join", "t2", "print", "resetCounter", "clear"} =>
              Len(localCounterVector) = t
        /\ ((start /\ pc # "close") \/ \E w \in Workers : threadVector[w].pc # "wait") =>
              Len(localCounterVector) = t

C17_Witness ==
    /\ trial = NumTrials /\ pc = "spawnLocal" /\ ~start
    /\ Len(threadVector) = 1 /\ threadVector[1].pc = "wait"
    /\ Len(localCounterVector) = 2

\* C18: in the LocalCounter trial slot k is appended with value 0 before
\* worker k is spawned; the index of every thread is inside the sequence;
\* while a thread is in its increment loop the runner is in its join loop
\* (it neither appends nor clears); appends happen with the gate closed and
\* every thread waiting, the clear with every thread joined.
C18_SlotAccessInRange ==
    trial = NumTrials =>
        /\ pc = "spawnLocal" =>
              /\ Len(threadVector) = iterator
              /\ Len(localCounterVector) = iterator + 1
              /\ localCounterVector[Slot(iterator)] = 0
        /\ \A w \in Workers :
              /\ Slot(threadVector[w].iterator) \in 1..Len(localCounterVector)
              /\ threadVector[w].pc \in {"loop", "store"} => (pc = "join" /\ start)
        /\ pc \in {"spawn", "spawnLocal"} =>
              ~start /\ \A w \in Workers : threadVector[w].pc = "wait"
        /\ pc = "clear" => Len(threadVector) = t /\ AllJoined

C18_Witness ==
    /\ trial = NumTrials /\ pc = "join"
    /\ Len(localCounterVector) = 2
    /\ \E w \in Workers :
          /\ threadVector[w].iterator = 1
          /\ threadVector[w].pc = "store"
          /\ threadVector[w].incrementCounter = 1

\* the two functions that take the mutex
Locking == {"incrementiTimesMutexLock", "incrementiTimesLockGuard"}

\* C19: the mutex is free whenever no thread exists, while a block spawns and
\* after all joins; it is held only by a thread of the MutexLock or LockGuard
\* trial that is between its lock and its unlock, the thread that unlocks is
\* the holder, and a thread that has returned holds nothing.
C19_MutexFreeBetweenTrials ==
    /\ threadVector = <<>> => sharedCounter_mtx = NoOwner
    /\ pc \notin {"join"} => sharedCounter_mtx = NoOwner
    /\ (pc = "join" /\ AllJoined) => sharedCounter_mtx = NoOwner
    /\ sharedCounter_mtx # NoOwner =>
          /\ trial \in {2, 3}
          /\ sharedCounter_mtx \in Workers
          /\ threadVector[sharedCounter_mtx].fn \in Locking
          /\ InCritical(sharedCounter_mtx)
    /\ \A w \in Workers :
          /\ threadVector[w].pc = "unlock" => sharedCounter_mtx = w
          /\ threadVector[w].pc \in {"done", "joined"} => sharedCounter_mtx # w

C19_Witness ==
    /\ trial = 3 /\ pc = "join" /\ Len(threadVector) = 2
    /\ threadVector[1].pc = "joined" /\ sharedCounter_mtx = 2
    /\ out[3].name = "incrementiTimesMutexLock"

\* C20: there are never more than W threads, all threads that exist were
\* spawned by the current trial and run its function, a trial starts with no
\* thread, and threadVector is cleared only with every thread in it joined.
C20_WorkersPerTrial ==
    /\ Len(threadVector) <= t
    /\ \A w \in Workers : threadVector[w].fn = ThreadFunction(trial)
    /\ (pc = "spawn" /\ iterator = 0) => threadVector = <<>>
    /\ pc \in {"spawn", "spawnLocal"} => Len(threadVector) = iterator
    /\ pc = "clear" => AllJoined
    /\ pc \in {"header", "close", "exit"} => threadVector = <<>>

C20_Witness ==
    /\ trial = 2 /\ pc = "clear" /\ t >= 2
    /\ Len(threadVector) = t /\ AllJoined

====
